---- MODULE Spec2Model ----
(***************************************************************************)
(* A state-machine model of js/main.js of the JW Time website: the Theme,  *)
(* Language and Utils (copy button) modules and the start-up routine.      *)
(*                                                                         *)
(* A pathname is modelled as the sequence currentPath.split('/') yields:   *)
(* "/it/manual.html" is <<"", "it", "manual.html">> and "/" is <<"", "">>. *)
(* A substring "/x/" (x without a slash) occurs in the pathname exactly    *)
(* when x is a part that is neither the first nor the last one.            *)
(***************************************************************************)
EXTENDS Integers, Sequences, FiniteSets, TLC

VARIABLES
    savedTheme,     \* localStorage['jwtime-theme'] (NULL when absent)
    bodyClasses,    \* the theme classes in document.body.classList
    prefersDark,    \* matchMedia('(prefers-color-scheme: dark)').matches
    mqEvents,       \* 'change' events of the media query not yet dispatched
    watching,       \* the listener of watchSystemTheme is registered
    reported,       \* the OS theme the page last read or was last notified of
    toggleBtn,      \* the #theme-toggle element: present, icon, title
    toggleWired,    \* the click listener of setupToggleButton is registered
    savedLang,      \* localStorage['jwtime-lang'] (NULL when absent)
    pathname,       \* window.location.pathname, split at '/'
    langWired,      \* the click listeners of Language.init are registered
    lastHref,       \* the last value assigned to window.location.href
    buttonLabel,    \* textContent of the copy button of the page's code block
    writes,         \* clipboard writes whose promise is not yet settled
    timers,         \* revert timers of the copy button not yet fired
    readyState,     \* document.readyState
    phase,          \* "start": script not run; "waiting": DOMContentLoaded
                    \* listener registered; "live": initAll has run
    initAllRuns,    \* how often initAll ran in this document
    activeLinks,    \* the hrefs of the '.nav a' links that carry 'active'
    extLinks,       \* target and rel of each 'a[href^="http"]' link, by host
    lastOp          \* the operation that ran last, and its argument

vars == <<savedTheme, bodyClasses, prefersDark, mqEvents, watching, reported,
          toggleBtn, toggleWired, savedLang, pathname, langWired, lastHref,
          buttonLabel, writes, timers, readyState, phase, initAllRuns,
          activeLinks, extLinks, lastOp>>

themeVars == <<savedTheme, bodyClasses, prefersDark, mqEvents, watching,
               reported, toggleBtn, toggleWired>>
langVars  == <<savedLang, pathname, langWired, lastHref>>
copyVars  == <<buttonLabel, writes, timers>>
pageVars  == <<readyState, phase, initAllRuns>>
domVars   == <<activeLinks, extLinks>>

----------------------------------------------------------------------------
(* Bounds *)

MaxEvents == 2      \* undispatched media-query change events
MaxPending == 2     \* unsettled clipboard writes plus unfired revert timers

----------------------------------------------------------------------------
(* Constants of the program *)

NULL == "<null>"                \* localStorage.getItem of an absent key
DARK == "dark"
LIGHT == "light"
AUTO == "auto"
DarkClass == "dark-theme"
LightClass == "light-theme"
ThemeClasses == {DarkClass, LightClass}

SUPPORTED == <<"it", "en", "es", "de", "fr", "pt_BR">>
\* the alternatives of the regex left at an older list of locales
DetectAlternativesStale == <<"it", "en", "es", "de", "fr", "pt">>

DetectAlternatives == <<"it", "en", "es", "de", "fr", "pt_BR">>
BaseSegment == "jwtime"
IndexPage == "index.html"

CopyLabel == "Copy"
CopiedLabel == "Copied!"
NoButton == "<no button>"       \* before addCopyButtonsToCodeBlocks ran

LightModeTitle == "Switch to light mode"
DarkModeTitle == "Switch to dark mode"

----------------------------------------------------------------------------
(* Inputs *)

ThemeValues == {DARK, LIGHT, AUTO}
StoredThemes == {NULL, DARK, LIGHT, AUTO}
StoredLangs == {NULL, "it", "pt_BR"}
LangInputs == {"en", "fr", "pt_BR", "xx", "EN", "pt", ""}
StartPaths == { <<"", "">>,
                <<"", "it", "manual.html">>,
                <<"", "jwtime", "en", "">>,
                <<"", "index.html">>,
                <<"", "docs", "jwtime", "pt_BR", "news.html">>,
                <<"", "de">> }

StaticToggle(present) ==
    [present |-> present, icon |-> "static", title |-> "static"]

----------------------------------------------------------------------------
(* Theme *)

Range(s) == {s[i] : i \in 1..Len(s)}

Last(s) == s[Len(s)]

SystemTheme(matches) == IF matches THEN DARK ELSE LIGHT

\* applyTheme without the removal of the old classes
applyThemeKeepsOld(classes, theme) ==
    IF theme = DARK THEN classes \cup {DarkClass}
    ELSE IF theme = LIGHT THEN classes \cup {LightClass}
    ELSE classes

applyTheme(classes, theme) ==
    LET removed == classes \ {DarkClass, LightClass}
    IN  IF theme = DARK THEN removed \cup {DarkClass}
        ELSE IF theme = LIGHT THEN removed \cup {LightClass}
        ELSE removed

applySystemTheme(classes, matches) ==
    applyTheme(classes, IF matches THEN DARK ELSE LIGHT)

\* getCurrentTheme answering from the OS preference alone
getCurrentThemeSystemOnly(classes, matches) ==
    IF matches THEN DARK ELSE LIGHT

getCurrentTheme(classes, matches) ==
    IF DarkClass \in classes THEN DARK
    ELSE IF LightClass \in classes THEN LIGHT
    ELSE IF matches THEN DARK ELSE LIGHT

\* the OS theme known to the page after getCurrentTheme: its last branch reads
\* the media query, the other two do not
ReportedAfterGet(classes, matches, rep) ==
    IF DarkClass \notin classes /\ LightClass \notin classes
    THEN SystemTheme(matches) ELSE rep

\* which branch of getCurrentTheme answers: a class of the body or the OS
ClassSource(classes) ==
    IF DarkClass \in classes \/ LightClass \in classes THEN "class" ELSE "system"

updateToggleButton(btn, theme) ==
    IF ~btn.present THEN btn
    ELSE [present |-> TRUE,
          icon |-> IF theme = DARK THEN "sun" ELSE "moon",
          title |-> IF theme = DARK THEN LightModeTitle ELSE DarkModeTitle]

IsAutoOrAbsent(saved) == saved = AUTO \/ saved = NULL

\* the listener without its check of the saved preference
ListenerAppliesAlways(saved) == TRUE

\* the listener checking only for the stored word, not for an absent key
ListenerAppliesStoredAutoOnly(saved) == saved = AUTO

\* the guard of the listener registered by watchSystemTheme
ListenerApplies(saved) == saved = AUTO \/ saved = NULL

\* toggle re-applying the theme it found
NewThemeSame(currentTheme) == IF currentTheme = DARK THEN DARK ELSE LIGHT

NewTheme(currentTheme) == IF currentTheme = DARK THEN LIGHT ELSE DARK

\* init storing the theme it resolved
ThemeInitPersists ==
    LET auto == IsAutoOrAbsent(savedTheme)
        classes == IF auto THEN applySystemTheme(bodyClasses, prefersDark)
                   ELSE applyTheme(bodyClasses, savedTheme)
        rep == IF auto THEN SystemTheme(prefersDark) ELSE reported
    IN  /\ bodyClasses' = classes
        /\ savedTheme' = getCurrentTheme(classes, prefersDark)
        /\ watching' = (watching \/ auto)
        /\ toggleBtn' = updateToggleButton(toggleBtn,
                                           getCurrentTheme(classes, prefersDark))
        /\ toggleWired' = (toggleWired \/ toggleBtn.present)
        /\ reported' = IF toggleBtn.present
                       THEN ReportedAfterGet(classes, prefersDark, rep) ELSE rep
        /\ UNCHANGED <<prefersDark, mqEvents>>

ThemeInit ==
    LET auto == IsAutoOrAbsent(savedTheme)
        classes == IF auto THEN applySystemTheme(bodyClasses, prefersDark)
                   ELSE applyTheme(bodyClasses, savedTheme)
        rep == IF auto THEN SystemTheme(prefersDark) ELSE reported
    IN  /\ bodyClasses' = classes
        /\ watching' = (watching \/ auto)
        /\ toggleBtn' = updateToggleButton(toggleBtn,
                                           getCurrentTheme(classes, prefersDark))
        /\ toggleWired' = (toggleWired \/ toggleBtn.present)
        /\ reported' = IF toggleBtn.present
                       THEN ReportedAfterGet(classes, prefersDark, rep) ELSE rep
        /\ UNCHANGED <<savedTheme, prefersDark, mqEvents>>

toggle ==
    LET currentTheme == getCurrentTheme(bodyClasses, prefersDark)
        newTheme == NewTheme(currentTheme)
    IN  /\ bodyClasses' = applyTheme(bodyClasses, newTheme)
        /\ savedTheme' = newTheme
        /\ toggleBtn' = updateToggleButton(toggleBtn, newTheme)
        /\ reported' = ReportedAfterGet(bodyClasses, prefersDark, reported)
        /\ UNCHANGED <<prefersDark, mqEvents, watching, toggleWired>>

----------------------------------------------------------------------------
(* Strings as sequences of characters, for String.prototype.includes *)

\* the characters of a path component of the model
SegmentChars(seg) ==
    CASE seg = "" -> <<>>
      [] seg = "it" -> <<"i", "t">>
      [] seg = "en" -> <<"e", "n">>
      [] seg = "es" -> <<"e", "s">>
      [] seg = "de" -> <<"d", "e">>
      [] seg = "fr" -> <<"f", "r">>
      [] seg = "pt_BR" -> <<"p", "t", "_", "B", "R">>
      [] seg = "docs" -> <<"d", "o", "c", "s">>
      [] seg = "jwtime" -> <<"j", "w", "t", "i", "m", "e">>
      [] seg = "manual.html" -> <<"m", "a", "n", "u", "a", "l", ".", "h", "t", "m", "l">>
      [] seg = "news.html" -> <<"n", "e", "w", "s", ".", "h", "t", "m", "l">>
      [] seg = "index.html" -> <<"i", "n", "d", "e", "x", ".", "h", "t", "m", "l">>

RECURSIVE PathString(_)
\* the pathname as a string: the components joined by '/'
PathString(path) ==
    IF Len(path) = 0 THEN <<>>
    ELSE IF Len(path) = 1 THEN SegmentChars(path[1])
    ELSE PathString(SubSeq(path, 1, Len(path) - 1))
             \o <<"/">> \o SegmentChars(Last(path))

\* hay.includes(needle)
Includes(hay, needle) ==
    \E i \in 0..(Len(hay) - Len(needle)) :
        SubSeq(hay, i + 1, i + Len(needle)) = needle

----------------------------------------------------------------------------
(* Navigation *)

RootHref == <<"/">>
ManualHref == <<"m", "a", "n", "u", "a", "l", ".", "h", "t", "m", "l">>
EnglishHref == <<"/", "e", "n", "/">>
NewsHref == <<"n", "e", "w", "s", ".", "h", "t", "m", "l">>

\* the href attributes of the '.nav a' links of a page
NavHrefs == {RootHref, ManualHref, EnglishHref, NewsHref}

\* the links that carry 'active' in the markup of a page: the marking has a
\* link for setActiveLink to unmark on every path and lacks links for it to mark
StaticActiveSets == {{RootHref, NewsHref}}

\* setActiveLink without its else branch
setActiveLinkAddsOnly(path, active) ==
    active \cup {linkPath \in NavHrefs :
                    Includes(PathString(path), linkPath) /\ linkPath # <<"/">>}

\* the links that carry 'active' after setActiveLink
setActiveLink(path, active) ==
    LET currentPath == PathString(path)
        added == {linkPath \in NavHrefs :
                      Includes(currentPath, linkPath) /\ linkPath # <<"/">>}
        removed == {linkPath \in NavHrefs :
                      ~(Includes(currentPath, linkPath) /\ linkPath # <<"/">>)}
    IN  (active \cup added) \ removed

----------------------------------------------------------------------------
(* External links *)

\* window.location.hostname
PageHost == <<"j", "w", "t", "i", "m", "e", ".", "i", "o">>

SameHost == <<"j", "w", "t", "i", "m", "e", ".", "i", "o">>
OtherHost == <<"g", "i", "t", "h", "u", "b", ".", "c", "o", "m">>
LookalikeHost == <<"j", "w", "t", "i", "m", "e", ".", "i", "o", ".", "e", "v", "i", "l", ".", "n", "e", "t">>

\* link.hostname of the 'a[href^="http"]' links of a page
LinkHosts == {SameHost, OtherHost, LookalikeHost}

StaticLink == [target |-> "static", rel |-> "static"]

setupExternalLinks(links) ==
    [host \in DOMAIN links |->
        IF ~Includes(host, PageHost)
        THEN [target |-> "_blank", rel |-> "noopener noreferrer"]
        ELSE links[host]]

----------------------------------------------------------------------------
(* Language *)

\* currentPath.includes('/' + seg + '/')
IncludesSegment(path, seg) == \E i \in 2..(Len(path) - 1) : path[i] = seg

\* langMatch[1] of currentPath.match(/\/(it|en|es|de|fr|pt_BR)\//), or NULL
MatchLang(path) ==
    LET hits == {i \in 2..(Len(path) - 1) : path[i] \in Range(DetectAlternatives)}
    IN  IF hits = {} THEN NULL
        ELSE path[CHOOSE i \in hits : \A j \in hits : i <= j]

\* save without its membership test
saveUnchecked(stored, lang) == lang

\* the value of the language key after save(lang)
save(stored, lang) == IF lang \in Range(SUPPORTED) THEN lang ELSE stored

\* the target built without looking for the base segment
SwitchTargetRootOnly(path, newLang) ==
    <<"", newLang, IF Last(path) # "" THEN Last(path) ELSE IndexPage>>

\* the target built without the fallback to the index page
SwitchTargetNoIndex(path, newLang) ==
    (IF IncludesSegment(path, BaseSegment) THEN <<"", BaseSegment>> ELSE <<"">>)
        \o <<newLang, Last(path)>>

\* the target built without the page component
SwitchTargetNoPage(path, newLang) ==
    (IF IncludesSegment(path, BaseSegment) THEN <<"", BaseSegment>> ELSE <<"">>)
        \o <<newLang>>

\* the pathname of `${basePath}${newLang}/${currentPage}`
SwitchTarget(path, newLang) ==
    LET basePath == IF IncludesSegment(path, BaseSegment)
                    THEN <<"", BaseSegment>> ELSE <<"">>
        currentPage == IF Last(path) # "" THEN Last(path) ELSE IndexPage
    IN  basePath \o <<newLang, currentPage>>

detectAndSaveCurrentLanguage(stored, path) ==
    IF MatchLang(path) # NULL THEN save(stored, MatchLang(path)) ELSE stored

LanguageInit ==
    /\ langWired' = TRUE
    /\ savedLang' = detectAndSaveCurrentLanguage(savedLang, pathname)
    /\ UNCHANGED <<pathname, lastHref>>

\* the browser leaves the document for the one at target: listeners, timers,
\* pending events and the DOM of the old document are gone
Navigate(target) ==
    /\ pathname' = target
    /\ lastHref' = target
    /\ bodyClasses' \in SUBSET ThemeClasses
    /\ \E present \in BOOLEAN : toggleBtn' = StaticToggle(present)
    /\ readyState' \in {"loading", "interactive"}
    /\ mqEvents' = <<>>
    /\ watching' = FALSE
    /\ reported' = "none"
    /\ toggleWired' = FALSE
    /\ langWired' = FALSE
    /\ buttonLabel' = NoButton
    /\ writes' = 0
    /\ timers' = 0
    /\ phase' = "start"
    /\ initAllRuns' = 0
    /\ activeLinks' \in StaticActiveSets
    /\ extLinks' = [host \in LinkHosts |-> StaticLink]
    /\ UNCHANGED <<savedTheme, prefersDark>>

\* switch without its early return
switchUnchecked(newLang) ==
    /\ savedLang' = save(savedLang, newLang)
    /\ Navigate(SwitchTarget(pathname, newLang))

switch(newLang) ==
    IF newLang \notin Range(SUPPORTED)
    THEN UNCHANGED <<themeVars, langVars, copyVars, pageVars, domVars>>
    ELSE /\ savedLang' = save(savedLang, newLang)
         /\ Navigate(SwitchTarget(pathname, newLang))

----------------------------------------------------------------------------
(* Start-up *)

AddCopyButtons ==
    /\ buttonLabel' = CopyLabel
    /\ UNCHANGED <<writes, timers>>

initAll ==
    /\ ThemeInit
    /\ LanguageInit
    /\ activeLinks' = setActiveLink(pathname, activeLinks)
    /\ AddCopyButtons
    /\ extLinks' = setupExternalLinks(extLinks)
    /\ initAllRuns' = initAllRuns + 1
    /\ phase' = "live"

Init ==
    /\ savedTheme \in StoredThemes
    /\ bodyClasses \in SUBSET ThemeClasses
    /\ prefersDark \in BOOLEAN
    /\ mqEvents = <<>>
    /\ watching = FALSE
    /\ reported = "none"
    /\ \E present \in BOOLEAN : toggleBtn = StaticToggle(present)
    /\ toggleWired = FALSE
    /\ savedLang \in StoredLangs
    /\ pathname \in StartPaths
    /\ langWired = FALSE
    /\ lastHref = <<>>
    /\ buttonLabel = NoButton
    /\ writes = 0
    /\ timers = 0
    /\ readyState \in {"loading", "interactive"}
    /\ phase = "start"
    /\ initAllRuns = 0
    /\ activeLinks \in StaticActiveSets
    /\ extLinks = [host \in LinkHosts |-> StaticLink]
    /\ lastOp = [op |-> "load", arg |-> ""]

\* init() without its test of document.readyState
RunScriptEager ==
    /\ phase = "start"
    /\ initAll
    /\ UNCHANGED readyState
    /\ lastOp' = [op |-> "init", arg |-> readyState]

\* the script runs: init()
RunScript ==
    /\ phase = "start"
    /\ IF readyState = "loading"
       THEN /\ phase' = "waiting"
            /\ UNCHANGED <<themeVars, langVars, copyVars, initAllRuns, domVars>>
       ELSE initAll
    /\ UNCHANGED readyState
    /\ lastOp' = [op |-> "init", arg |-> readyState]

\* the parser finishes and the document fires DOMContentLoaded
DOMContentLoaded ==
    /\ readyState = "loading"
    /\ readyState' = "interactive"
    /\ IF phase = "waiting"
       THEN initAll
       ELSE UNCHANGED <<themeVars, langVars, copyVars, phase, initAllRuns,
                        domVars>>
    /\ lastOp' = [op |-> "DOMContentLoaded", arg |-> phase]

----------------------------------------------------------------------------
(* Events *)

ToggleClick ==
    /\ toggleWired
    /\ toggle
    /\ UNCHANGED <<langVars, copyVars, pageVars, domVars>>
    /\ lastOp' = [op |-> "toggle", arg |-> ClassSource(bodyClasses)]

\* the OS colour scheme changes; the media query queues a change event
SystemThemeChange ==
    /\ Len(mqEvents) < MaxEvents
    /\ prefersDark' = ~prefersDark
    /\ mqEvents' = Append(mqEvents, ~prefersDark)
    /\ UNCHANGED <<savedTheme, bodyClasses, watching, reported, toggleBtn,
                   toggleWired, langVars, copyVars, pageVars, domVars>>
    /\ lastOp' = [op |-> "systemChange", arg |-> SystemTheme(~prefersDark)]

\* the change event is dispatched to the listener of watchSystemTheme, if any
SystemThemeNotify ==
    /\ mqEvents # <<>>
    /\ mqEvents' = Tail(mqEvents)
    /\ IF watching
       THEN /\ reported' = SystemTheme(Head(mqEvents))
            /\ bodyClasses' = IF ListenerApplies(savedTheme)
                              THEN applyTheme(bodyClasses,
                                              SystemTheme(Head(mqEvents)))
                              ELSE bodyClasses
       ELSE UNCHANGED <<reported, bodyClasses>>
    /\ UNCHANGED <<savedTheme, prefersDark, watching, toggleBtn, toggleWired,
                   langVars, copyVars, pageVars, domVars>>
    /\ lastOp' = [op |-> IF watching THEN "notify" ELSE "unheard",
                  arg |-> SystemTheme(Head(mqEvents))]

\* a click on a [data-lang] link whose attribute is lang
LangClick(lang) ==
    /\ langWired
    /\ switch(lang)
    /\ lastOp' = [op |-> "switch", arg |-> lang]

CopyClick ==
    /\ buttonLabel # NoButton
    /\ writes + timers < MaxPending
    /\ writes' = writes + 1
    /\ UNCHANGED <<buttonLabel, timers, themeVars, langVars, pageVars, domVars>>
    /\ lastOp' = [op |-> "copyClick", arg |-> buttonLabel]

\* the then-callback clearing the timers set before it sets its own
ClipboardResolveResetsTimer ==
    /\ writes > 0
    /\ writes' = writes - 1
    /\ buttonLabel' = CopiedLabel
    /\ timers' = 1
    /\ UNCHANGED <<themeVars, langVars, pageVars, domVars>>
    /\ lastOp' = [op |-> "copied", arg |-> buttonLabel]

\* the then-callback without its setTimeout
ClipboardResolveNoTimer ==
    /\ writes > 0
    /\ writes' = writes - 1
    /\ buttonLabel' = CopiedLabel
    /\ UNCHANGED <<timers, themeVars, langVars, pageVars, domVars>>
    /\ lastOp' = [op |-> "copied", arg |-> buttonLabel]

\* the promise of writeText is fulfilled: the then-callback runs
ClipboardResolve ==
    /\ writes > 0
    /\ writes' = writes - 1
    /\ buttonLabel' = CopiedLabel
    /\ timers' = timers + 1
    /\ UNCHANGED <<themeVars, langVars, pageVars, domVars>>
    /\ lastOp' = [op |-> "copied", arg |-> buttonLabel]

\* the promise of writeText is rejected: there is no catch-callback
ClipboardReject ==
    /\ writes > 0
    /\ writes' = writes - 1
    /\ UNCHANGED <<buttonLabel, timers, themeVars, langVars, pageVars, domVars>>
    /\ lastOp' = [op |-> "copyFailed", arg |-> buttonLabel]

\* the timer callback without its assignment to the label
TimerFireKeepsLabel ==
    /\ timers > 0
    /\ timers' = timers - 1
    /\ UNCHANGED <<buttonLabel, writes, themeVars, langVars, pageVars, domVars>>
    /\ lastOp' = [op |-> "revert", arg |-> buttonLabel]

\* a revert timer fires; timers of equal delay fire in the order they were set
TimerFire ==
    /\ timers > 0
    /\ timers' = timers - 1
    /\ buttonLabel' = CopyLabel
    /\ UNCHANGED <<writes, themeVars, langVars, pageVars, domVars>>
    /\ lastOp' = [op |-> "revert", arg |-> buttonLabel]

PageNext ==
    \/ RunScript
    \/ DOMContentLoaded

ThemeNext ==
    \/ ToggleClick
    \/ SystemThemeChange
    \/ SystemThemeNotify

LangNext == \E lang \in LangInputs : LangClick(lang)

CopyNext ==
    \/ CopyClick
    \/ ClipboardResolve
    \/ ClipboardReject
    \/ TimerFire

Next == PageNext \/ ThemeNext \/ LangNext \/ CopyNext

Spec == Init /\ [][Next]_vars

----------------------------------------------------------------------------
(* Calls through window.JWTimeWebsite, available once the script has run *)

ApiApplyTheme(theme) ==
    /\ phase # "start"
    /\ bodyClasses' = applyTheme(bodyClasses, theme)
    /\ UNCHANGED <<savedTheme, prefersDark, mqEvents, watching, reported,
                   toggleBtn, toggleWired, langVars, copyVars, pageVars, domVars>>
    /\ lastOp' = [op |-> "applyTheme", arg |-> theme]

ApiToggle ==
    /\ phase # "start"
    /\ toggle
    /\ UNCHANGED <<langVars, copyVars, pageVars, domVars>>
    /\ lastOp' = [op |-> "toggle", arg |-> ClassSource(bodyClasses)]

ApiSave(lang) ==
    /\ phase # "start"
    /\ savedLang' = save(savedLang, lang)
    /\ UNCHANGED <<themeVars, pathname, langWired, lastHref, copyVars, pageVars, domVars>>
    /\ lastOp' = [op |-> "save", arg |-> lang]

ApiSwitch(lang) ==
    /\ phase # "start"
    /\ switch(lang)
    /\ lastOp' = [op |-> "switch", arg |-> lang]

ApiSetActiveLink ==
    /\ phase # "start"
    /\ activeLinks' = setActiveLink(pathname, activeLinks)
    /\ UNCHANGED <<themeVars, langVars, copyVars, pageVars, extLinks>>
    /\ lastOp' = [op |-> "setActiveLink", arg |-> ""]

ThemeApiNext ==
    \/ \E theme \in ThemeValues : ApiApplyTheme(theme)
    \/ ApiToggle

LangApiNext ==
    \/ \E lang \in LangInputs : ApiSave(lang)
    \/ \E lang \in LangInputs : ApiSwitch(lang)

\* the page and its theme events, with calls of Theme's methods
NextThemeApi == PageNext \/ ThemeNext \/ ThemeApiNext

SpecThemeApi == Init /\ [][NextThemeApi]_vars

\* the page and its language links, with calls of Language's methods
NextLangApi == PageNext \/ LangNext \/ LangApiNext

SpecLangApi == Init /\ [][NextLangApi]_vars

NavApiNext == ApiSetActiveLink

\* the page and its language links, with calls of Navigation.setActiveLink
NextNavApi == PageNext \/ LangNext \/ NavApiNext

SpecNavApi == Init /\ [][NextNavApi]_vars

\* setTimeout fires its callback once the delay has passed
LiveSpec == Spec /\ WF_vars(TimerFire)

\* the page, its language links and its copy button, without the theme events
NextCopy == PageNext \/ LangNext \/ CopyNext

LiveCopySpec == Init /\ [][NextCopy]_vars /\ WF_vars(TimerFire)

----------------------------------------------------------------------------
(* Properties *)

ClassOf(theme) == IF theme = DARK THEN DarkClass ELSE LightClass
ExplicitThemes == {"dark", "light"}

\* C1: once Theme.init() has run, the theme class of the body is that of the
\* persisted value when it is 'dark' or 'light', and otherwise that of the OS
\* preference the page read or was notified of last.
C1_VisibleThemeMatches ==
    phase = "live" =>
        IF savedTheme \in ExplicitThemes
        THEN bodyClasses = {ClassOf(savedTheme)}
        ELSE reported \in ExplicitThemes /\ bodyClasses = {ClassOf(reported)}

\* C1 witness: in auto mode a notification was applied, and the OS has moved on
C1_Witness ==
    /\ phase = "live"
    /\ savedTheme = "<null>"
    /\ lastOp = [op |-> "notify", arg |-> "dark"]
    /\ bodyClasses = {"dark-theme"}
    /\ mqEvents = <<FALSE>>

\* C2: a change notification heard while the preference is 'auto' or absent
\* makes the notified scheme the visible theme; one heard while 'dark' or
\* 'light' is persisted changes neither the body classes nor the persisted value.
C2_NotificationFollowsAuto ==
    [][ (SystemThemeNotify /\ watching) =>
            /\ savedTheme' = savedTheme
            /\ IF savedTheme \in {"auto", "<null>"}
               THEN bodyClasses' = {IF Head(mqEvents) THEN "dark-theme"
                                    ELSE "light-theme"}
               ELSE bodyClasses' = bodyClasses ]_vars

\* C2 witness: a notification of a dark OS was heard after a toggle to light
C2_Witness ==
    /\ lastOp = [op |-> "notify", arg |-> "dark"]
    /\ watching
    /\ savedTheme = "light"
    /\ bodyClasses = {"light-theme"}
    /\ prefersDark

\* C3: every toggle persists the opposite of the theme getCurrentTheme
\* reported before it, 'dark' or 'light', and leaves exactly that theme's class
\* on the body.
C3_ToggleSetsExplicitOpposite ==
    [][ (ToggleClick \/ ApiToggle) =>
            /\ savedTheme' \in ExplicitThemes
            /\ savedTheme' # getCurrentTheme(bodyClasses, prefersDark)
            /\ bodyClasses' = {ClassOf(savedTheme')} ]_vars

\* C3 witness: a toggle from a body without theme class under a light OS
C3_Witness ==
    /\ lastOp = [op |-> "toggle", arg |-> "system"]
    /\ ~prefersDark
    /\ savedTheme = "dark"
    /\ bodyClasses = {"dark-theme"}

SupportedLangs == {"it", "en", "es", "de", "fr", "pt_BR"}

\* C4: the value stored under the language key is absent or a supported
\* language, and the language segment of every navigation target is a
\* supported language.
C4_OnlySupportedLanguages ==
    /\ savedLang \in SupportedLangs \cup {"<null>"}
    /\ lastHref # <<>> =>
          /\ Len(lastHref) >= 3
          /\ lastHref[Len(lastHref) - 1] \in SupportedLangs

\* C4 witness: a switch to pt_BR from a page under the base segment
C4_Witness ==
    /\ lastOp = [op |-> "switch", arg |-> "pt_BR"]
    /\ savedLang = "pt_BR"
    /\ lastHref = <<"", "jwtime", "pt_BR", "news.html">>

PathHasBase(path) == \E i \in 2..(Len(path) - 1) : path[i] = "jwtime"
BaseOf(path) == IF PathHasBase(path) THEN <<"", "jwtime">> ELSE <<"">>

\* C5 as stated: switch(L) for a supported L persists L and navigates to
\* <base>/<L>/<page> with <page> the final component of the current path.
C5_SwitchKeepsFinalComponent ==
    [][ \A L \in SupportedLangs :
          (lastOp' = [op |-> "switch", arg |-> L]
              /\ (LangClick(L) \/ ApiSwitch(L))) =>
              /\ savedLang' = L
              /\ lastHref' = BaseOf(pathname) \o <<L, Last(pathname)>>
              /\ pathname' = lastHref' ]_vars

\* C5 amended: switch(L) for a supported L persists L and navigates to
\* <base>/<L>/<page>, where <base> is /jwtime/ if the current path contains
\* the segment /jwtime/ and / otherwise, and <page> is the final component of
\* the current path, or index.html when that component is empty.
C5_SwitchTargetWithIndexDefault ==
    [][ \A L \in SupportedLangs :
          (lastOp' = [op |-> "switch", arg |-> L]
              /\ (LangClick(L) \/ ApiSwitch(L))) =>
              /\ savedLang' = L
              /\ lastHref' = BaseOf(pathname) \o
                     <<L, IF Last(pathname) = "" THEN "index.html"
                          ELSE Last(pathname)>>
              /\ pathname' = lastHref' ]_vars

\* C5 witness: the index page of French under the base segment, reached from a
\* path that ends in a slash
C5_Witness ==
    /\ lastOp = [op |-> "switch", arg |-> "fr"]
    /\ savedLang = "fr"
    /\ pathname = <<"", "jwtime", "fr", "index.html">>
    /\ lastHref = pathname

\* C8: save(L) and switch(L) with an unsupported L change no persisted value
\* and navigate nowhere: nothing but the record of the call changes.
C8_UnsupportedIsNoOp ==
    [][ \A L \in LangInputs \ SupportedLangs :
          (lastOp'.arg = L
              /\ (ApiSave(L) \/ ApiSwitch(L) \/ LangClick(L))) =>
              UNCHANGED <<savedLang, savedTheme, pathname, lastHref, phase,
                          initAllRuns, bodyClasses, langWired, buttonLabel>>
      ]_vars

\* C8 witness: switch('EN') ran on a live page that has a stored language and
\* has not navigated
C8_Witness ==
    /\ lastOp = [op |-> "switch", arg |-> "EN"]
    /\ phase = "live"
    /\ savedLang = "it"
    /\ lastHref = <<>>

\* C10: Language.init() persists the first /<lang>/ segment of the path whose
\* <lang> is in the supported set of save and switch, and leaves the stored
\* language unchanged when the path has no such segment.
C10_InitPersistsDetectedLanguage ==
    [][ initAllRuns' = initAllRuns + 1 =>
          LET segs == {i \in 2..(Len(pathname) - 1) :
                          pathname[i] \in Range(SUPPORTED)}
          IN  IF segs # {}
              THEN \E i \in segs : /\ \A j \in segs : i <= j
                                   /\ savedLang' = pathname[i]
              ELSE savedLang' = savedLang ]_vars

\* C10 witness: the first page of the session is /jwtime/en/, and 'en', which
\* was not stored before, is stored
C10_Witness ==
    /\ phase = "live"
    /\ lastHref = <<>>
    /\ pathname = <<"", "jwtime", "en", "">>
    /\ savedLang = "en"

\* C6: a fulfilled clipboard write sets the label to 'Copied!'; a rejected one
\* changes neither the label nor the timers; when no revert timer is left the
\* label reads 'Copy'; and a label 'Copied!' is always followed by 'Copy',
\* unless the page is left first.
C6_CopiedLabelReverts ==
    /\ [][ClipboardResolve => buttonLabel' = "Copied!"]_vars
    /\ [][ClipboardReject => UNCHANGED <<buttonLabel, timers>>]_vars
    /\ [](phase = "live" /\ timers = 0 => buttonLabel = "Copy")
    /\ (buttonLabel = "Copied!" ~> (buttonLabel = "Copy" \/ phase # "live"))

\* C6 witness: the only revert timer has fired and turned 'Copied!' into 'Copy'
C6_Witness ==
    /\ lastOp = [op |-> "revert", arg |-> "Copied!"]
    /\ buttonLabel = "Copy"
    /\ timers = 0
    /\ writes = 0

\* C7: a fulfilled write adds its revert timer and cancels none, and every
\* timer that fires sets the label to 'Copy', whatever timers remain.
C7_TimersNotCoordinated ==
    [][ /\ ClipboardResolve => timers' = timers + 1
        /\ TimerFire => (timers' = timers - 1 /\ buttonLabel' = "Copy") ]_vars

\* C7 witness: the first timer has fired over the 'Copied!' of the second
\* copy, whose own timer is still pending
C7_Witness ==
    /\ lastOp = [op |-> "revert", arg |-> "Copied!"]
    /\ buttonLabel = "Copy"
    /\ timers = 1

\* C9 as stated: after applyTheme(value), for value 'dark', 'light' or
\* 'auto', exactly one of the two theme classes is on the body.
C9_ApplyThemeExactlyOne ==
    lastOp.op = "applyTheme" =>
        Cardinality(bodyClasses \cap {"dark-theme", "light-theme"}) = 1

\* C9 amended: after applyTheme(value) with value 'dark' or 'light' exactly
\* one theme class is on the body, the one of value; after applyTheme('auto')
\* neither is; never both, and no class is ever made of 'auto'.
C9_ApplyThemeExplicitExactlyOne ==
    lastOp.op = "applyTheme" =>
        /\ lastOp.arg = "dark" => bodyClasses = {"dark-theme"}
        /\ lastOp.arg = "light" => bodyClasses = {"light-theme"}
        /\ lastOp.arg = "auto" => bodyClasses = {}
        /\ bodyClasses \cap {"auto", "auto-theme"} = {}

\* C9 witness: applyTheme('light') has run under a dark OS with 'dark' stored
C9_Witness ==
    /\ lastOp = [op |-> "applyTheme", arg |-> "light"]
    /\ bodyClasses = {"light-theme"}
    /\ savedTheme = "dark"
    /\ prefersDark

\* C11: after applyTheme(v) with v 'dark' or 'light', from any body classes
\* and under any OS preference, getCurrentTheme() returns v; it returns
\* 'dark' or 'light' in every state.
C11_ApplyThenGetRoundTrip ==
    /\ getCurrentTheme(bodyClasses, prefersDark) \in {"dark", "light"}
    /\ (lastOp.op = "applyTheme" /\ lastOp.arg \in {"dark", "light"}) =>
           getCurrentTheme(bodyClasses, prefersDark) = lastOp.arg

\* C11 witness: applyTheme('dark') has run under a light OS with 'light' stored
C11_Witness ==
    /\ lastOp = [op |-> "applyTheme", arg |-> "dark"]
    /\ ~prefersDark
    /\ savedTheme = "light"
    /\ bodyClasses = {"dark-theme"}

\* C12: switch(L) from a path whose final component is empty navigates to the
\* index page, from '/' with L = 'fr' to /fr/index.html; the page component of
\* a navigation target is never empty.
C12_IndexPageFallback ==
    /\ [](lastHref # <<>> => Last(lastHref) # "")
    /\ [][ \A L \in SupportedLangs :
             (Last(pathname) = "" /\ lastOp' = [op |-> "switch", arg |-> L]
                 /\ (LangClick(L) \/ ApiSwitch(L))) =>
                 /\ Last(lastHref') = "index.html"
                 /\ (pathname = <<"", "">> /\ L = "fr") =>
                        lastHref' = <<"", "fr", "index.html">> ]_vars

\* C12 witness: the index page of pt_BR under the base segment, which only a
\* switch from a path ending in a slash reaches first
C12_Witness ==
    /\ lastOp = [op |-> "switch", arg |-> "pt_BR"]
    /\ lastHref = <<"", "jwtime", "pt_BR", "index.html">>
    /\ pathname = lastHref
    /\ phase = "start"

\* C13: after setActiveLink, whatever links were marked before, the marked
\* links are those whose href is a substring of the current path other than
\* '/'; a further call on the same path changes no marker.
C13_ActiveIffNonRootSubstring ==
    /\ []((phase = "live" \/ lastOp.op = "setActiveLink") =>
            \A href \in NavHrefs :
                href \in activeLinks <=>
                    (Includes(PathString(pathname), href) /\ href # <<"/">>))
    /\ [][ (ApiSetActiveLink /\ (phase = "live" \/ lastOp.op = "setActiveLink"))
              => activeLinks' = activeLinks ]_vars

\* C13 witness: a second setActiveLink on /en/manual.html, where the links to
\* manual.html and /en/ are marked and those to / and news.html are not
C13_Witness ==
    /\ lastOp.op = "setActiveLink"
    /\ phase = "live"
    /\ pathname = <<"", "en", "manual.html">>
    /\ activeLinks = {<<"m", "a", "n", "u", "a", "l", ".", "h", "t", "m", "l">>,
                      <<"/", "e", "n", "/">>}

\* C14: after setupExternalLinks every link whose host differs from the host
\* of the page has target '_blank' and rel 'noopener noreferrer', and every
\* link whose host equals it has the attributes of the markup.
C14_ForeignHostsOpenInNewContext ==
    phase = "live" =>
        \A host \in LinkHosts :
            IF host # PageHost
            THEN extLinks[host] = [target |-> "_blank",
                                   rel |-> "noopener noreferrer"]
            ELSE extLinks[host] = [target |-> "static", rel |-> "static"]

\* C15: initAll runs at most once in a document and never while it is
\* loading: the script runs it at once unless the document is loading, and
\* DOMContentLoaded runs it exactly when the script has registered for it.
C15_InitAllOnce ==
    /\ [](initAllRuns <= 1)
    /\ [](initAllRuns = 1 => readyState # "loading")
    /\ [](phase = "live" <=> initAllRuns = 1)
    /\ [][RunScript =>
            initAllRuns' = IF readyState = "loading" THEN 0 ELSE 1]_vars
    /\ [][DOMContentLoaded =>
            initAllRuns' = IF phase = "waiting" THEN 1 ELSE initAllRuns]_vars

\* C15 witness: DOMContentLoaded has run initAll for a script that had waited
C15_Witness ==
    /\ lastOp = [op |-> "DOMContentLoaded", arg |-> "waiting"]
    /\ initAllRuns = 1
    /\ phase = "live"
    /\ readyState = "interactive"

\* C16: once Theme.init() has run on a page with the toggle control, the
\* control shows the sun and 'Switch to light mode' exactly when the body is
\* dark, and the moon and 'Switch to dark mode' exactly when it is light.
C16_ToggleInSync ==
    (phase = "live" /\ toggleBtn.present) =>
        /\ (toggleBtn.title = "Switch to light mode" /\ toggleBtn.icon = "sun")
               <=> bodyClasses = {"dark-theme"}
        /\ (toggleBtn.title = "Switch to dark mode" /\ toggleBtn.icon = "moon")
               <=> bodyClasses = {"light-theme"}

\* C17: after switch(L) for a supported L the page is the navigation target,
\* whose language segment is L; Language.init() on that page detects L from
\* its URL and leaves L stored.
C17_SwitchThenDetectAgree ==
    /\ []((lastOp.op = "switch" /\ lastOp.arg \in SupportedLangs) =>
            /\ savedLang = lastOp.arg
            /\ pathname = lastHref
            /\ Len(lastHref) >= 3
            /\ lastHref[Len(lastHref) - 1] = lastOp.arg)
    /\ [][ (initAllRuns' = initAllRuns + 1 /\ lastHref # <<>>) =>
              /\ MatchLang(pathname) = lastHref[Len(lastHref) - 1]
              /\ savedLang' = lastHref[Len(lastHref) - 1] ]_vars

\* C17 witness: init has run on /fr/manual.html, the target of a switch to fr
C17_Witness ==
    /\ lastOp.op \in {"init", "DOMContentLoaded"}
    /\ phase = "live"
    /\ lastHref = <<"", "fr", "manual.html">>
    /\ pathname = lastHref
    /\ savedLang = "fr"

\* C18: the stored theme changes only in a toggle; start-up, OS changes and
\* their notifications leave it as it is.
C18_OnlyToggleWritesTheme ==
    /\ [][ (RunScript \/ DOMContentLoaded \/ SystemThemeChange
               \/ SystemThemeNotify) => savedTheme' = savedTheme ]_vars
    /\ [][ savedTheme' # savedTheme => ToggleClick ]_vars

\* C18 witness: on a page loaded after a navigation the stored theme is still
\* 'auto' after init and a notification that made the body dark
C18_Witness ==
    /\ phase = "live"
    /\ lastHref # <<>>
    /\ savedTheme = "auto"
    /\ lastOp = [op |-> "notify", arg |-> "dark"]
    /\ bodyClasses = {"dark-theme"}

\* C19: the label of the copy button is 'Copy' or 'Copied!', and while it is
\* 'Copied!' at least one revert timer is pending.
C19_CopiedHasPendingTimer ==
    /\ buttonLabel # "<no button>" => buttonLabel \in {"Copy", "Copied!"}
    /\ buttonLabel = "Copied!" => timers >= 1

\* C19 witness: two copies have succeeded and both timers are pending
C19_Witness ==
    /\ lastOp = [op |-> "copied", arg |-> "Copied!"]
    /\ buttonLabel = "Copied!"
    /\ timers = 2

====
